---- MODULE Spec2Model ----
(***************************************************************************)
(* Model of create-vue's index.js: the command line is parsed, the prompt  *)
(* sequence is walked, the effective configuration is destructured, the    *)
(* target directory is prepared, the templates are rendered in order and   *)
(* the two cleanup passes run.                                             *)
(*                                                                         *)
(* JavaScript values of flags and toggle answers are the strings           *)
(* "undefined", "true" and "false"; objects (argv, result) are functions   *)
(* whose DOMAIN is the set of keys that are present.  Names (project name, *)
(* package name) are sequences of one-character strings.  A path is a      *)
(* sequence of file names relative to the target root, a file name is a    *)
(* record [stem, ext] ("main.js" is [stem |-> "main", ext |-> "js"]), and  *)
(* the tree under the root is a function from the paths that exist to      *)
(* [kind, content].                                                        *)
(***************************************************************************)
EXTENDS Integers, Sequences, FiniteSets, TLC

VARIABLES
    cmdline,            \* process.argv.slice(2): the flag spellings supplied
    positional,         \* argv._[0] (<<>> when absent)
    pc,                 \* position inside init()
    argv,               \* minimist's result
    isFeatureFlagsUsed,
    targetDir,
    defaultProjectName,
    forceOverwrite,
    result,             \* answers collected by prompts()
    shown,              \* names of the prompts that were displayed, in order
    cfg,                \* the destructured effective configuration
    fs,                 \* the tree at path.join(cwd, targetDir)
    fs0,                \* that tree as it was when the program started
    rendered,           \* render calls made so far, in order
    eslintArgs,         \* the configuration object renderEslint received
    stdout,             \* messages printed
    exitCode,           \* -1 while running
    nameIn,             \* input of the package-name functions
    nameOut,            \* toValidPackageName(nameIn)
    nameOk              \* isValidPackageName(nameOut)

vars == <<cmdline, positional, pc, argv, isFeatureFlagsUsed,
          targetDir, defaultProjectName, forceOverwrite, result, shown, cfg,
          fs, fs0, rendered, eslintArgs, stdout, exitCode,
          nameIn, nameOut, nameOk>>

runVars == <<cmdline, positional, pc, argv, isFeatureFlagsUsed,
             targetDir, defaultProjectName, forceOverwrite, result, shown, cfg,
             fs, fs0, rendered, eslintArgs, stdout, exitCode>>

nameVars == <<nameIn, nameOut, nameOk>>

----------------------------------------------------------------------------
(* Characters and the package-name functions                               *)

MaxLen == 3

\* the characters that occur: a-z is represented by the letters in use,
\* A-Z by "A", 0-9 by "0", whitespace by " "
Lower == {"a", "b", "c", "e", "j", "o", "p", "r", "t", "u", "v"}
Upper == {"A"}
Digit == {"0"}
Space == {" "}
Alphabet == Lower \cup Upper \cup Digit \cup Space \cup
            {".", "_", "-", "~", "*", "@", "/", "!"}

\* the characters the names fed to the package-name functions are made of
InputChars == {"a", "b", "A", "0", " ", ".", "_", "-", "~", "*", "@", "/", "!"}

NameFirst == Lower \cup Digit \cup {"-", "~"}
NameRest == Lower \cup Digit \cup {"-", ".", "_", "~"}
ScopeFirst == Lower \cup Digit \cup {"-", "*", "~"}
ScopeRest == Lower \cup Digit \cup {"-", "*", ".", "_", "~"}

\* [a-z0-9-~][a-z0-9-._~]*
MatchesName(s) ==
    /\ Len(s) >= 1
    /\ s[1] \in NameFirst
    /\ \A i \in 2..Len(s) : s[i] \in NameRest

\* @[a-z0-9-*~][a-z0-9-*._~]*\/
MatchesScope(s) ==
    /\ Len(s) >= 3
    /\ s[1] = "@"
    /\ s[2] \in ScopeFirst
    /\ \A i \in 3..(Len(s) - 1) : s[i] \in ScopeRest
    /\ s[Len(s)] = "/"

isValidPackageName(projectName) ==
    \/ MatchesName(projectName)
    \/ \E i \in 1..Len(projectName) :
          /\ MatchesScope(SubSeq(projectName, 1, i))
          /\ MatchesName(SubSeq(projectName, i + 1, Len(projectName)))

RECURSIVE TrimStart(_)
TrimStart(s) ==
    IF s # <<>> /\ Head(s) \in Space THEN TrimStart(Tail(s)) ELSE s

RECURSIVE TrimEnd(_)
TrimEnd(s) ==
    IF s # <<>> /\ s[Len(s)] \in Space
    THEN TrimEnd(SubSeq(s, 1, Len(s) - 1))
    ELSE s

Trim(s) == TrimEnd(TrimStart(s))

LowerOf(c) == IF c = "A" THEN "a" ELSE c

ToLowerCase(s) == [i \in 1..Len(s) |-> LowerOf(s[i])]

RECURSIVE DropRun(_, _)
DropRun(s, class) ==
    IF s # <<>> /\ Head(s) \in class THEN DropRun(Tail(s), class) ELSE s

\* s.replace(/[class]+/g, r)
RECURSIVE ReplaceRuns(_, _, _)
ReplaceRuns(s, class, r) ==
    IF s = <<>> THEN <<>>
    ELSE IF Head(s) \in class
         THEN <<r>> \o ReplaceRuns(DropRun(s, class), class, r)
         ELSE <<Head(s)>> \o ReplaceRuns(Tail(s), class, r)

\* s.replace(/^[._]/, '')
StripLeading(s) ==
    IF s # <<>> /\ Head(s) \in {".", "_"} THEN Tail(s) ELSE s

Disallowed == Alphabet \ (Lower \cup Digit \cup {"-", "~"})

toValidPackageName(projectName) ==
    ReplaceRuns(
        StripLeading(ReplaceRuns(ToLowerCase(Trim(projectName)), Space, "-")),
        Disallowed, "-")

RECURSIVE Str(_)
Str(s) == IF s = <<>> THEN "" ELSE Head(s) \o Str(Tail(s))

VueProject == <<"v", "u", "e", "-", "p", "r", "o", "j", "e", "c", "t">>

----------------------------------------------------------------------------
(* JavaScript value helpers                                                *)

Truthy(v) == v = "true"

JsOr(a, b) == IF Truthy(a) THEN a ELSE b

TypeofBoolean(v) == v \in {"true", "false"}

Get(obj, k) == IF k \in DOMAIN obj THEN obj[k] ELSE "undefined"

Default(obj, k, d) == IF k \in DOMAIN obj THEN obj[k] ELSE d

EmptyObject == [k \in {} |-> "undefined"]

----------------------------------------------------------------------------
(* The tree under the target root                                          *)

N(stem, ext) == [stem |-> stem, ext |-> ext]

Root == <<>>

DirEntry == [kind |-> "dir", content |-> <<>>]

FileEntry(content) == [kind |-> "file", content |-> content]

NoTree == [p \in {} |-> DirEntry]

Exists(f, p) == p \in DOMAIN f

IsDirectory(f, p) == p \in DOMAIN f /\ f[p].kind = "dir"

IsFile(f, p) == p \in DOMAIN f /\ f[p].kind = "file"

Basename(p) == p[Len(p)]

Dirname(p) == SubSeq(p, 1, Len(p) - 1)

IsPrefix(d, p) == Len(d) <= Len(p) /\ SubSeq(p, 1, Len(d)) = d

Children(f, d) == {p \in DOMAIN f : Len(p) = Len(d) + 1 /\ IsPrefix(d, p)}

Ancestors(p) == {SubSeq(p, 1, i) : i \in 0..(Len(p) - 1)}

\* the order of the names on disk
NameOrder ==
    << N(".eslintrc", "cjs"), N("App", "vue"), N("HelloWorld.spec", "js"),
       N("HelloWorld.spec", "ts"), N("README", "md"), N("__tests__", ""),
       N("b", "js"), N("b", "ts"), N("components", ""), N("cypress", ""),
       N("env.d", "ts"), N("index", "html"), N("index", "js"),
       N("index", "ts"), N("jsconfig", "json"), N("lib", ""),
       N("main", "js"), N("main", "ts"), N("old", "js"), N("old", "ts"),
       N("package", "json"), N("plugins", ""), N("router", ""),
       N("src", ""), N("t", "js"), N("t", "ts"), N("tsconfig", "json"),
       N("vite.config", "js"), N("vite.config", "ts") >>

Rank(n) ==
    IF \E i \in 1..Len(NameOrder) : NameOrder[i] = n
    THEN CHOOSE i \in 1..Len(NameOrder) : NameOrder[i] = n
    ELSE Len(NameOrder) + 1

\* fs.readdirSync promises no order: the listing is ascending or descending
ReaddirOrders == {"asc", "desc"}

ListedBefore(x, y, order) ==
    IF order = "asc"
    THEN Rank(Basename(x)) <= Rank(Basename(y))
    ELSE Rank(Basename(x)) >= Rank(Basename(y))

RECURSIVE Listing(_, _)
Listing(S, order) ==
    IF S = {} THEN <<>>
    ELSE LET m == CHOOSE x \in S : \A y \in S : ListedBefore(x, y, order)
         IN  <<m>> \o Listing(S \ {m}, order)

\* fs.readdirSync(dir), as full paths
readdirSync(f, dir, order) == Listing(Children(f, dir), order)

unlinkSync(f, p) == [q \in DOMAIN f \ {p} |-> f[q]]

rmdirSync(f, p) == [q \in DOMAIN f \ {p} |-> f[q]]

renameSync(f, p, q) ==
    [x \in (DOMAIN f \ {p}) \cup {q} |-> IF x = q THEN f[p] ELSE f[x]]

writeFileSync(f, p, content) ==
    [x \in DOMAIN f \cup {p} |-> IF x = p THEN FileEntry(content) ELSE f[x]]

mkdirSync(f, p) ==
    [x \in DOMAIN f \cup {p} |-> IF x = p THEN DirEntry ELSE f[x]]

canSafelyOverwrite(f) == ~Exists(f, Root) \/ Children(f, Root) = {}

\* postOrderDirectoryTraverse(dir, rmdirSync, unlinkSync) over a listing
RECURSIVE postOrderDirectoryTraverse(_, _, _)
postOrderDirectoryTraverse(f, list, order) ==
    IF list = <<>> THEN f
    ELSE LET fullpath == Head(list)
         IN  IF IsDirectory(f, fullpath)
             THEN postOrderDirectoryTraverse(
                      rmdirSync(
                          postOrderDirectoryTraverse(
                              f, readdirSync(f, fullpath, order), order),
                          fullpath),
                      Tail(list), order)
             ELSE postOrderDirectoryTraverse(
                      unlinkSync(f, fullpath), Tail(list), order)

emptyDir(f, dir, order) ==
    postOrderDirectoryTraverse(f, readdirSync(f, dir, order), order)

----------------------------------------------------------------------------
(* Templates                                                               *)

PackageJson == N("package", "json")

Src == N("src", "")

Cypress == N("cypress", "")

Tests == N("__tests__", "")

TemplateFiles(t) ==
    CASE t = "base" ->
           ( <<PackageJson>> :> <<"pkg:base">>
          @@ <<N("index", "html")>> :> <<"<script>", "src/main.js">>
          @@ <<N("jsconfig", "json")>> :> <<"base">>
          @@ <<N("vite.config", "js")>> :> <<"base">> )
      [] t \in {"config/jsx", "config/router", "config/pinia"} ->
           ( <<PackageJson>> :> <<"pkg:" \o t>> )
      [] t = "config/cypress" ->
           ( <<PackageJson>> :> <<"pkg:config/cypress">>
          @@ <<Cypress, N("plugins", ""), N("index", "js")>> :> <<"config/cypress">> )
      [] t = "config/typescript" ->
           ( <<PackageJson>> :> <<"pkg:config/typescript">>
          @@ <<Cypress, N("plugins", ""), N("index", "ts")>> :> <<"config/typescript">>
          @@ <<N("env.d", "ts")>> :> <<"config/typescript">> )
      [] t = "code/default" ->
           ( <<Src, N("App", "vue")>> :> <<t>>
          @@ <<Src, N("components", ""), Tests, N("HelloWorld.spec", "js")>> :> <<t>> )
      [] t = "code/router" ->
           ( <<Src, N("App", "vue")>> :> <<t>>
          @@ <<Src, N("router", ""), N("index", "js")>> :> <<t>>
          @@ <<Src, N("components", ""), Tests, N("HelloWorld.spec", "js")>> :> <<t>> )
      [] t = "code/typescript-default" ->
           ( <<Src, N("App", "vue")>> :> <<t>>
          @@ <<Src, N("components", ""), Tests, N("HelloWorld.spec", "ts")>> :> <<t>> )
      [] t = "code/typescript-router" ->
           ( <<Src, N("App", "vue")>> :> <<t>>
          @@ <<Src, N("router", ""), N("index", "ts")>> :> <<t>>
          @@ <<Src, N("components", ""), Tests, N("HelloWorld.spec", "ts")>> :> <<t>> )
      [] t \in {"entry/default", "entry/router", "entry/pinia",
                "entry/router-and-pinia"} ->
           ( <<Src, N("main", "js")>> :> <<t>> )

\* the lint fragment: the variant copied depends on the configuration received
EslintFiles(config) ==
    ( <<PackageJson>> :> <<"pkg:eslint">>
   @@ <<N(".eslintrc", "cjs")>> :>
          << IF Truthy(Get(config, "needsPrettier")) THEN "prettier" ELSE "plain",
             IF Truthy(Get(config, "needsTypeScript")) THEN "ts" ELSE "js" >> )

\* copy every file of a template layer into the tree; an existing
\* package.json is merged, every other file is written
CopyLayer(f, layer) ==
    LET dirs == UNION {Ancestors(p) : p \in DOMAIN layer}
    IN  [p \in DOMAIN f \cup DOMAIN layer \cup dirs |->
            IF p \in DOMAIN layer
            THEN IF Basename(p) = PackageJson /\ Exists(f, p)
                 THEN FileEntry(f[p].content \o layer[p])
                 ELSE FileEntry(layer[p])
            ELSE IF p \in DOMAIN f THEN f[p] ELSE DirEntry]

renderTemplate(f, t) == CopyLayer(f, TemplateFiles(t))

renderEslint(f, config) == CopyLayer(f, EslintFiles(config))

\* what the user may already have at the target
UserTree ==
    ( Root :> DirEntry
   @@ <<N("old", "js")>> :> FileEntry(<<"user:old">>)
   @@ <<N("lib", "")>> :> DirEntry
   @@ <<N("lib", ""), N("b", "js")>> :> FileEntry(<<"user:b.js">>)
   @@ <<N("lib", ""), N("b", "ts")>> :> FileEntry(<<"user:b.ts">>)
   @@ <<N("lib", ""), Tests>> :> DirEntry
   @@ <<N("lib", ""), Tests, N("t", "js")>> :> FileEntry(<<"user:t">>) )

EmptyTree == ( Root :> DirEntry )

InitialTrees == {NoTree, EmptyTree, UserTree}

----------------------------------------------------------------------------
(* The cleanup passes                                                      *)

\* the file callback with the sibling check dropped
TsFileCallbackAlwaysRename(f, filepath) ==
    LET name == Basename(filepath)
    IN  IF name.ext = "js"
        THEN renameSync(f, filepath, Dirname(filepath) \o <<N(name.stem, "ts")>>)
        ELSE IF name = N("jsconfig", "json")
             THEN renameSync(f, filepath,
                             Dirname(filepath) \o <<N("tsconfig", "json")>>)
             ELSE f

\* the file callback of the TypeScript pass
TsFileCallback(f, filepath) ==
    LET name == Basename(filepath)
        tsFilePath == Dirname(filepath) \o <<N(name.stem, "ts")>>
    IN  IF name.ext = "js"
        THEN IF Exists(f, tsFilePath)
             THEN unlinkSync(f, filepath)
             ELSE renameSync(f, filepath, tsFilePath)
        ELSE IF name = N("jsconfig", "json")
             THEN renameSync(f, filepath,
                             Dirname(filepath) \o <<N("tsconfig", "json")>>)
             ELSE f

\* the directory callback with the __tests__ name forgotten
TestDirCallbackCypressOnly(f, dirpath, order) ==
    IF Basename(dirpath) = Cypress
    THEN rmdirSync(emptyDir(f, dirpath, order), dirpath)
    ELSE f

\* the directory callback of the test-removal pass
TestDirCallback(f, dirpath, order) ==
    IF Basename(dirpath) = Cypress \/ Basename(dirpath) = Tests
    THEN rmdirSync(emptyDir(f, dirpath, order), dirpath)
    ELSE f

DirCallback(pass, f, dirpath, order) ==
    IF pass = "tests" THEN TestDirCallback(f, dirpath, order) ELSE f

FileCallback(pass, f, filepath) ==
    IF pass = "ts" THEN TsFileCallback(f, filepath) ELSE f

\* preOrderDirectoryTraverse over a listing; a directory the callback
\* removed is not descended into
RECURSIVE preOrderDirectoryTraverse(_, _, _, _)
preOrderDirectoryTraverse(f, list, pass, order) ==
    IF list = <<>> THEN f
    ELSE LET fullpath == Head(list)
         IN  IF IsDirectory(f, fullpath)
             THEN LET g == DirCallback(pass, f, fullpath, order)
                      h == IF Exists(g, fullpath)
                           THEN preOrderDirectoryTraverse(
                                    g, readdirSync(g, fullpath, order), pass, order)
                           ELSE g
                  IN  preOrderDirectoryTraverse(h, Tail(list), pass, order)
             ELSE preOrderDirectoryTraverse(
                      FileCallback(pass, f, fullpath), Tail(list), pass, order)

\* content.replace(a, b): the first occurrence only
RECURSIVE ReplaceFirst(_, _, _)
ReplaceFirst(content, a, b) ==
    IF content = <<>> THEN <<>>
    ELSE IF Head(content) = a THEN <<b>> \o Tail(content)
         ELSE <<Head(content)>> \o ReplaceFirst(Tail(content), a, b)

IndexHtml == <<N("index", "html")>>

TypeScriptCleanup(f, order) ==
    LET g == preOrderDirectoryTraverse(f, readdirSync(f, Root, order), "ts", order)
    IN  writeFileSync(g, IndexHtml,
                      ReplaceFirst(g[IndexHtml].content, "src/main.js", "src/main.ts"))

TestCleanup(f, order) ==
    preOrderDirectoryTraverse(f, readdirSync(f, Root, order), "tests", order)

\* /pnpm/.test(p) ? 'pnpm' : /yarn/.test(p) ? 'yarn' : 'npm', where the
\* environment value is given by the set of words it contains
ExecPaths == {{}, {"pnpm"}, {"yarn"}, {"pnpm", "yarn"}}

PackageManager(execpath) ==
    IF "pnpm" \in execpath THEN "pnpm"
    ELSE IF "yarn" \in execpath THEN "yarn" ELSE "npm"

generateReadme(projectName, packageManager, needsTypeScript, needsTests, needsEslint) ==
    << Str(projectName), packageManager,
       IF Truthy(needsTypeScript) THEN "ts" ELSE "js",
       IF Truthy(needsTests) THEN "tests" ELSE "no-tests",
       IF Truthy(needsEslint) THEN "lint" ELSE "no-lint" >>

----------------------------------------------------------------------------
(* The run of init()                                                       *)

\* one spelling of each option; minimist sets every alias of a supplied key
Spellings == {"default", "ts", "jsx", "vue-router", "pinia", "cypress",
              "eslint", "eslint-with-prettier", "force"}

AliasGroup(key) ==
    IF key \in {"typescript", "ts"} THEN {"typescript", "ts"}
    ELSE IF key \in {"with-tests", "tests", "cypress"}
         THEN {"with-tests", "tests", "cypress"}
    ELSE IF key \in {"router", "vue-router"} THEN {"router", "vue-router"}
    ELSE {key}

minimist(args) == [k \in UNION {AliasGroup(a) : a \in args} |-> "true"]

PositionalArgs == {<<>>, <<"a", "b">>, <<"A", " ", "b">>, <<".">>}

TypedNames == {<<>>, <<"b", "0">>, <<" ", "A", "!">>}

PackageNameInputs == {<<"a">>, <<"A">>}

CancelMessage == "Operation cancelled"

NoConfig ==
    [packageName |-> <<>>, shouldOverwrite |-> "undefined",
     needsJsx |-> "undefined", needsTypeScript |-> "undefined",
     needsRouter |-> "undefined", needsPinia |-> "undefined",
     needsTests |-> "undefined", needsEslint |-> "undefined",
     needsPrettier |-> "undefined"]

Init ==
    /\ cmdline \in SUBSET Spellings
    /\ positional \in PositionalArgs
    /\ fs \in InitialTrees
    /\ positional = <<".">> => Exists(fs, Root)
    /\ fs0 = fs
    /\ pc = "parse"
    /\ argv = EmptyObject
    /\ isFeatureFlagsUsed = FALSE
    /\ targetDir = <<>>
    /\ defaultProjectName = <<>>
    /\ forceOverwrite = "undefined"
    /\ result = EmptyObject
    /\ shown = <<>>
    /\ cfg = NoConfig
    /\ rendered = <<>>
    /\ eslintArgs = EmptyObject
    /\ stdout = <<>>
    /\ exitCode = -1
    /\ nameIn = <<>>
    /\ nameOut = <<>>
    /\ nameOk = FALSE

FeatureFlagsUsed(a) ==
    TypeofBoolean(
        JsOr(Get(a, "default"),
        JsOr(Get(a, "ts"),
        JsOr(Get(a, "jsx"),
        JsOr(Get(a, "router"),
        JsOr(Get(a, "pinia"),
        JsOr(Get(a, "tests"), Get(a, "eslint"))))))))

ParseArgs ==
    /\ pc = "parse"
    /\ stdout' = Append(stdout, "banner")
    /\ argv' = minimist(cmdline)
    /\ isFeatureFlagsUsed' = FeatureFlagsUsed(minimist(cmdline))
    /\ targetDir' = positional
    /\ defaultProjectName' = IF positional = <<>> THEN VueProject ELSE positional
    /\ forceOverwrite' = Get(minimist(cmdline), "force")
    /\ result' = EmptyObject
    /\ pc' = "projectName"
    /\ UNCHANGED <<cmdline, positional, shown, cfg, fs, fs0, rendered,
                   eslintArgs, exitCode, nameVars>>

\* the thrown cancellation is caught: the message is printed, process.exit(1)
Cancelled ==
    /\ stdout' = Append(stdout, CancelMessage)
    /\ exitCode' = 1
    /\ pc' = "exited"

promptFrame == <<cmdline, positional, argv, isFeatureFlagsUsed,
                 defaultProjectName, forceOverwrite, cfg, fs, fs0, rendered,
                 eslintArgs, nameVars>>

ProjectNamePrompt ==
    /\ pc = "projectName"
    /\ IF targetDir # <<>>
       THEN /\ pc' = "shouldOverwrite"
            /\ UNCHANGED <<targetDir, result, shown, stdout, exitCode>>
       ELSE /\ shown' = Append(shown, "projectName")
            /\ \/ \E typed \in TypedNames :
                    LET value == IF typed = <<>> THEN defaultProjectName ELSE typed
                    IN  /\ targetDir' = IF Trim(value) = <<>>
                                        THEN defaultProjectName
                                        ELSE Trim(value)
                        /\ result' = result @@ ("projectName" :> value)
                        /\ pc' = "shouldOverwrite"
                        /\ UNCHANGED <<stdout, exitCode>>
               \/ Cancelled /\ UNCHANGED <<targetDir, result>>
    /\ UNCHANGED promptFrame

ShouldOverwritePrompt ==
    /\ pc = "shouldOverwrite"
    /\ IF canSafelyOverwrite(fs) \/ Truthy(forceOverwrite)
       THEN /\ pc' = "overwriteChecker"
            /\ UNCHANGED <<result, shown, stdout, exitCode>>
       ELSE /\ shown' = Append(shown, "shouldOverwrite")
            /\ \/ \E answer \in {"true", "false"} :
                    /\ result' = result @@ ("shouldOverwrite" :> answer)
                    /\ pc' = "overwriteChecker"
                    /\ UNCHANGED <<stdout, exitCode>>
               \/ Cancelled /\ UNCHANGED result
    /\ UNCHANGED <<targetDir, promptFrame>>

\* the checker with the throw left out
OverwriteCheckerNoThrow ==
    /\ pc = "overwriteChecker"
    /\ pc' = "packageName"
    /\ UNCHANGED <<stdout, exitCode, targetDir, result, shown, promptFrame>>

OverwriteChecker ==
    /\ pc = "overwriteChecker"
    /\ IF Get(result, "shouldOverwrite") = "false"
       THEN Cancelled
       ELSE pc' = "packageName" /\ UNCHANGED <<stdout, exitCode>>
    /\ UNCHANGED <<targetDir, result, shown, promptFrame>>

\* an entry that fails validate is re-prompted in place
PackageNamePrompt ==
    /\ pc = "packageName"
    /\ IF isValidPackageName(targetDir)
       THEN /\ pc' = "needsTypeScript"
            /\ UNCHANGED <<result, shown, stdout, exitCode>>
       ELSE /\ shown' = Append(shown, "packageName")
            /\ \/ \E dir \in PackageNameInputs \cup {toValidPackageName(targetDir)} :
                    /\ isValidPackageName(dir)
                    /\ result' = result @@ ("packageName" :> dir)
                    /\ pc' = "needsTypeScript"
                    /\ UNCHANGED <<stdout, exitCode>>
               \/ Cancelled /\ UNCHANGED result
    /\ UNCHANGED <<targetDir, promptFrame>>

Toggle(name, next) ==
    /\ pc = name
    /\ IF isFeatureFlagsUsed
       THEN /\ pc' = next
            /\ UNCHANGED <<result, shown, stdout, exitCode>>
       ELSE /\ shown' = Append(shown, name)
            /\ \/ \E answer \in {"true", "false"} :
                    /\ result' = result @@ (name :> answer)
                    /\ pc' = next
                    /\ UNCHANGED <<stdout, exitCode>>
               \/ Cancelled /\ UNCHANGED result
    /\ UNCHANGED <<targetDir, promptFrame>>

NeedsTypeScriptPrompt == Toggle("needsTypeScript", "needsJsx")

NeedsJsxPrompt == Toggle("needsJsx", "needsRouter")

NeedsRouterPrompt == Toggle("needsRouter", "needsPinia")

NeedsPiniaPrompt == Toggle("needsPinia", "needsTests")

NeedsTestsPrompt == Toggle("needsTests", "needsEslint")

NeedsEslintPrompt == Toggle("needsEslint", "needsPrettier")

NeedsPrettierPrompt ==
    /\ pc = "needsPrettier"
    /\ IF isFeatureFlagsUsed \/ ~Truthy(Get(result, "needsEslint"))
       THEN /\ pc' = "destructure"
            /\ UNCHANGED <<result, shown, stdout, exitCode>>
       ELSE /\ shown' = Append(shown, "needsPrettier")
            /\ \/ \E answer \in {"true", "false"} :
                    /\ result' = result @@ ("needsPrettier" :> answer)
                    /\ pc' = "destructure"
                    /\ UNCHANGED <<stdout, exitCode>>
               \/ Cancelled /\ UNCHANGED result
    /\ UNCHANGED <<targetDir, promptFrame>>

EffectivePackageName(res, defaultName) ==
    IF "packageName" \in DOMAIN res
    THEN res["packageName"]
    ELSE toValidPackageName(defaultName)

EffectiveConfig(res, a, defaultName) ==
    [packageName |-> EffectivePackageName(res, defaultName),
     shouldOverwrite |-> Get(res, "shouldOverwrite"),
     needsJsx |-> Default(res, "needsJsx", Get(a, "jsx")),
     needsTypeScript |-> Default(res, "needsTypeScript", Get(a, "typescript")),
     needsRouter |-> Default(res, "needsRouter", Get(a, "router")),
     needsPinia |-> Default(res, "needsPinia", Get(a, "pinia")),
     needsTests |-> Default(res, "needsTests", Get(a, "tests")),
     needsEslint |-> Default(res, "needsEslint",
                             JsOr(Get(a, "eslint"), Get(a, "eslint-with-prettier"))),
     needsPrettier |-> Default(res, "needsPrettier", Get(a, "eslint-with-prettier"))]

runFrame == <<cmdline, positional, argv, isFeatureFlagsUsed, targetDir,
              defaultProjectName, forceOverwrite, result, shown, fs0,
              exitCode, nameVars>>

Destructure ==
    /\ pc = "destructure"
    /\ cfg' = EffectiveConfig(result, argv, defaultProjectName)
    /\ pc' = "prepareRoot"
    /\ UNCHANGED <<fs, rendered, eslintArgs, stdout, runFrame>>

PreparedRoot(f, shouldOverwrite, order) ==
    IF Truthy(shouldOverwrite) THEN emptyDir(f, Root, order)
    ELSE IF ~Exists(f, Root) THEN mkdirSync(f, Root)
    ELSE f

PrepareRoot ==
    /\ pc = "prepareRoot"
    /\ \E order \in ReaddirOrders :
          fs' = PreparedRoot(fs, cfg.shouldOverwrite, order)
    /\ stdout' = Append(stdout, "Scaffolding project")
    /\ pc' = "writePkg"
    /\ UNCHANGED <<cfg, rendered, eslintArgs, runFrame>>

WritePkg ==
    /\ pc = "writePkg"
    /\ fs' = writeFileSync(fs, <<PackageJson>>, <<Str(cfg.packageName), "0.0.0">>)
    /\ pc' = "base"
    /\ UNCHANGED <<cfg, rendered, eslintArgs, stdout, runFrame>>

\* render(templateName)
Render(templateName) ==
    /\ fs' = renderTemplate(fs, templateName)
    /\ rendered' = Append(rendered, templateName)

RenderStep(at, needed, templateName, next) ==
    /\ pc = at
    /\ IF needed
       THEN Render(templateName)
       ELSE UNCHANGED <<fs, rendered>>
    /\ pc' = next
    /\ UNCHANGED <<cfg, eslintArgs, stdout, runFrame>>

RenderBase == RenderStep("base", TRUE, "base", "configJsx")

RenderJsx ==
    RenderStep("configJsx", Truthy(cfg.needsJsx), "config/jsx", "configRouter")

RenderRouter ==
    RenderStep("configRouter", Truthy(cfg.needsRouter), "config/router", "configPinia")

RenderPinia ==
    RenderStep("configPinia", Truthy(cfg.needsPinia), "config/pinia", "configCypress")

RenderCypress ==
    RenderStep("configCypress", Truthy(cfg.needsTests), "config/cypress",
               "configTypescript")

RenderTypescript ==
    RenderStep("configTypescript", Truthy(cfg.needsTypeScript),
               "config/typescript", "eslint")

\* renderEslint(root, result)
EslintCallArgs(res, config) == res

RenderEslint ==
    /\ pc = "eslint"
    /\ IF Truthy(cfg.needsEslint)
       THEN /\ fs' = renderEslint(fs, EslintCallArgs(result, cfg))
            /\ eslintArgs' = EslintCallArgs(result, cfg)
            /\ rendered' = Append(rendered, "eslint")
       ELSE UNCHANGED <<fs, eslintArgs, rendered>>
    /\ pc' = "code"
    /\ UNCHANGED <<cfg, stdout, runFrame>>

CodeTemplate(needsTypeScript, needsRouter) ==
    IF Truthy(needsTypeScript)
    THEN IF Truthy(needsRouter) THEN "code/typescript-router"
                                ELSE "code/typescript-default"
    ELSE IF Truthy(needsRouter) THEN "code/router" ELSE "code/default"

\* the entry table with the router row tested first
EntryTemplateRouterFirst(needsPinia, needsRouter) ==
    IF Truthy(needsRouter) THEN "entry/router"
    ELSE IF Truthy(needsPinia) /\ Truthy(needsRouter) THEN "entry/router-and-pinia"
    ELSE IF Truthy(needsPinia) THEN "entry/pinia"
    ELSE "entry/default"

EntryTemplate(needsPinia, needsRouter) ==
    IF Truthy(needsPinia) /\ Truthy(needsRouter) THEN "entry/router-and-pinia"
    ELSE IF Truthy(needsPinia) THEN "entry/pinia"
    ELSE IF Truthy(needsRouter) THEN "entry/router"
    ELSE "entry/default"

RenderCode ==
    RenderStep("code", TRUE, CodeTemplate(cfg.needsTypeScript, cfg.needsRouter),
               "entry")

RenderEntry ==
    RenderStep("entry", TRUE, EntryTemplate(cfg.needsPinia, cfg.needsRouter),
               "tsCleanup")

TsCleanupStep ==
    /\ pc = "tsCleanup"
    /\ IF Truthy(cfg.needsTypeScript)
       THEN \E order \in ReaddirOrders : fs' = TypeScriptCleanup(fs, order)
       ELSE UNCHANGED fs
    /\ pc' = "testCleanup"
    /\ UNCHANGED <<cfg, rendered, eslintArgs, stdout, runFrame>>

TestCleanupStep ==
    /\ pc = "testCleanup"
    /\ IF ~Truthy(cfg.needsTests)
       THEN \E order \in ReaddirOrders : fs' = TestCleanup(fs, order)
       ELSE UNCHANGED fs
    /\ pc' = "readme"
    /\ UNCHANGED <<cfg, rendered, eslintArgs, stdout, runFrame>>

ReadmeProjectName(res, defaultName) ==
    IF "projectName" \in DOMAIN res THEN res["projectName"] ELSE defaultName

WriteReadme ==
    /\ pc = "readme"
    /\ \E execpath \in ExecPaths :
          fs' = writeFileSync(fs, <<N("README", "md")>>,
                    generateReadme(ReadmeProjectName(result, defaultProjectName),
                                   PackageManager(execpath), cfg.needsTypeScript,
                                   cfg.needsTests, cfg.needsEslint))
    /\ stdout' = Append(stdout, "Done. Now run:")
    /\ pc' = "done"
    /\ UNCHANGED <<cfg, rendered, eslintArgs, runFrame>>

Next ==
    \/ ParseArgs
    \/ ProjectNamePrompt
    \/ ShouldOverwritePrompt
    \/ OverwriteChecker
    \/ PackageNamePrompt
    \/ NeedsTypeScriptPrompt
    \/ NeedsJsxPrompt
    \/ NeedsRouterPrompt
    \/ NeedsPiniaPrompt
    \/ NeedsTestsPrompt
    \/ NeedsEslintPrompt
    \/ NeedsPrettierPrompt
    \/ Destructure
    \/ PrepareRoot
    \/ WritePkg
    \/ RenderBase
    \/ RenderJsx
    \/ RenderRouter
    \/ RenderPinia
    \/ RenderCypress
    \/ RenderTypescript
    \/ RenderEslint
    \/ RenderCode
    \/ RenderEntry
    \/ TsCleanupStep
    \/ TestCleanupStep
    \/ WriteReadme

Spec == Init /\ [][Next]_vars

----------------------------------------------------------------------------
(* The package-name functions on their own                                 *)

Names == UNION {[1..n -> InputChars] : n \in 1..MaxLen}

InitName ==
    /\ nameIn \in Names
    /\ nameOut = <<>>
    /\ nameOk = FALSE
    /\ pc = "name"
    /\ cmdline = {}
    /\ positional = <<>>
    /\ fs = NoTree
    /\ fs0 = NoTree
    /\ argv = EmptyObject
    /\ isFeatureFlagsUsed = FALSE
    /\ targetDir = <<>>
    /\ defaultProjectName = <<>>
    /\ forceOverwrite = "undefined"
    /\ result = EmptyObject
    /\ shown = <<>>
    /\ cfg = NoConfig
    /\ rendered = <<>>
    /\ eslintArgs = EmptyObject
    /\ stdout = <<>>
    /\ exitCode = -1

Normalize ==
    /\ pc = "name"
    /\ nameOut' = toValidPackageName(nameIn)
    /\ pc' = "normalized"
    /\ UNCHANGED <<nameIn, nameOk, cmdline, positional, argv,
                   isFeatureFlagsUsed, targetDir, defaultProjectName,
                   forceOverwrite, result, shown, cfg, fs, fs0, rendered,
                   eslintArgs, stdout, exitCode>>

Validate ==
    /\ pc = "normalized"
    /\ nameOk' = isValidPackageName(nameOut)
    /\ pc' = "validated"
    /\ UNCHANGED <<nameIn, nameOut, cmdline, positional, argv,
                   isFeatureFlagsUsed, targetDir, defaultProjectName,
                   forceOverwrite, result, shown, cfg, fs, fs0, rendered,
                   eslintArgs, stdout, exitCode>>

NextName == Normalize \/ Validate

SpecName == InitName /\ [][NextName]_vars

----------------------------------------------------------------------------
(* Properties                                                              *)

FeatureSpellings == Spellings \ {"force"}

FeaturePrompts == {"needsTypeScript", "needsJsx", "needsRouter", "needsPinia",
                   "needsTests", "needsEslint", "needsPrettier"}

Shown(name) == \E i \in 1..Len(shown) : shown[i] = name

Configured == {"prepareRoot", "writePkg", "base", "configJsx", "configRouter",
               "configPinia", "configCypress", "configTypescript", "eslint",
               "code", "entry", "tsCleanup", "testCleanup", "readme", "done"}

PkgWritten == Configured \ {"prepareRoot", "writePkg"}

Rendering == {"base", "configJsx", "configRouter", "configPinia",
              "configCypress", "configTypescript", "eslint", "code", "entry"}

AllRendered == {"tsCleanup", "testCleanup", "readme", "done"}

\* the spellings that request each feature
FlagsOf(feature) ==
    CASE feature = "needsTypeScript" -> {"ts"}
      [] feature = "needsJsx" -> {"jsx"}
      [] feature = "needsRouter" -> {"vue-router"}
      [] feature = "needsPinia" -> {"pinia"}
      [] feature = "needsTests" -> {"cypress"}
      [] feature = "needsEslint" -> {"eslint", "eslint-with-prettier"}
      [] feature = "needsPrettier" -> {"eslint-with-prettier"}

\* C1: whenever a feature flag is supplied on the command line, none of the
\* seven feature prompts is shown and every feature whose flag was not
\* supplied is off in the effective configuration.
C1_FlagsSuppressFeaturePrompts ==
    cmdline \cap FeatureSpellings # {} =>
        /\ \A name \in FeaturePrompts : ~Shown(name)
        /\ pc \in Configured =>
              \A feature \in FeaturePrompts :
                  FlagsOf(feature) \cap cmdline = {} => ~Truthy(cfg[feature])

\* C2: when no package name was entered, the name written to package.json is
\* the one derived from the target directory name in use, whether it came
\* from the positional argument or from the project-name prompt.
C2_PackageNameFromTargetDir ==
    (pc \in PkgWritten /\ "packageName" \notin DOMAIN result) =>
        fs[<<PackageJson>>].content[1] = Str(toValidPackageName(targetDir))

\* C3: when rendering begins, just before package.json is written, the
\* target directory exists and has no entries.
C3_TargetEmptyWhenRenderingBegins ==
    pc = "writePkg" => Exists(fs, Root) /\ Children(fs, Root) = {}

\* C4: the normalised form of every non-empty name is a valid package name.
C4_NormalisedNameIsValid ==
    pc = "validated" => nameOk

OptionalStep(needed, step) == IF Truthy(needed) THEN <<step>> ELSE <<>>

CodeVariant(config) ==
    (IF Truthy(config.needsTypeScript) THEN "typescript-" ELSE "")
        \o (IF Truthy(config.needsRouter) THEN "router" ELSE "default")

EntryVariant(config) ==
    CASE Truthy(config.needsPinia) /\ Truthy(config.needsRouter) -> "router-and-pinia"
      [] Truthy(config.needsPinia) /\ ~Truthy(config.needsRouter) -> "pinia"
      [] ~Truthy(config.needsPinia) /\ Truthy(config.needsRouter) -> "router"
      [] OTHER -> "default"

PlanOf(config) ==
    <<"base">>
        \o OptionalStep(config.needsJsx, "config/jsx")
        \o OptionalStep(config.needsRouter, "config/router")
        \o OptionalStep(config.needsPinia, "config/pinia")
        \o OptionalStep(config.needsTests, "config/cypress")
        \o OptionalStep(config.needsTypeScript, "config/typescript")
        \o OptionalStep(config.needsEslint, "eslint")
        \o <<"code/" \o CodeVariant(config)>>
        \o <<"entry/" \o EntryVariant(config)>>

\* C5: the render steps made are, in order, base, the config fragments of
\* the features that are on (jsx, router, pinia, cypress, typescript), the
\* lint step iff linting is on, one code variant chosen by (TypeScript,
\* router) and one entry variant chosen by (pinia, router); while rendering
\* is under way the steps made are an initial part of that sequence.
C5_RenderPlan ==
    /\ pc \in AllRendered => rendered = PlanOf(cfg)
    /\ pc \in Rendering =>
          /\ Len(rendered) <= Len(PlanOf(cfg))
          /\ rendered = SubSeq(PlanOf(cfg), 1, Len(rendered))

W5_FullPlanRendered ==
    /\ pc = "done"
    /\ rendered = <<"base", "config/jsx", "config/router", "config/pinia",
                    "config/cypress", "config/typescript", "eslint",
                    "code/typescript-router", "entry/router-and-pinia">>

\* C6: when the lint step is rendered it receives the effective
\* configuration values of the run, so the lint variant written has
\* formatting on exactly when formatting is on in the effective
\* configuration.
C6_LintStepGetsEffectiveConfig ==
    (pc \in AllRendered /\ Truthy(cfg.needsEslint)) =>
        /\ Truthy(Get(eslintArgs, "needsPrettier")) = Truthy(cfg.needsPrettier)
        /\ Truthy(Get(eslintArgs, "needsTypeScript")) = Truthy(cfg.needsTypeScript)
        /\ (fs[<<N(".eslintrc", "cjs")>>].content[1] = "prettier")
               = Truthy(cfg.needsPrettier)

TsSibling(p) == Dirname(p) \o <<N(Basename(p).stem, "ts")>>

IsJsFile(f, p) == IsFile(f, p) /\ Basename(p).ext = "js"

Converted(f, g) ==
    /\ \A p \in DOMAIN f :
          IsJsFile(f, p) =>
              /\ ~Exists(g, p)
              /\ IsFile(g, TsSibling(p))
              /\ IF Exists(f, TsSibling(p))
                 THEN g[TsSibling(p)] = f[TsSibling(p)]
                 ELSE g[TsSibling(p)] = f[p]
    /\ \A p \in DOMAIN g : ~IsJsFile(g, p)

\* C7: the language conversion pass runs iff TypeScript is on and only when
\* every render step has been made; it turns each .js file without a .ts
\* sibling into that .ts file with the same content, removes each .js file
\* that has a .ts sibling and leaves that sibling as it was, so that no .js
\* file remains in the tree.
C7_LanguageConversion ==
    [][pc = "tsCleanup" =>
          /\ rendered = PlanOf(cfg)
          /\ IF Truthy(cfg.needsTypeScript)
             THEN Converted(fs, fs')
             ELSE fs' = fs]_vars

W7_ConvertedBothWays ==
    /\ pc = "testCleanup"
    /\ Truthy(cfg.needsTypeScript)
    /\ Truthy(cfg.needsTests)
    /\ IsFile(fs, <<Src, N("main", "ts")>>)
    /\ ~Exists(fs, <<Src, N("main", "js")>>)
    /\ ~Exists(fs, <<Cypress, N("plugins", ""), N("index", "js")>>)
    /\ fs[<<Cypress, N("plugins", ""), N("index", "ts")>>].content
           = <<"config/typescript">>

TestDirNames == {Cypress, Tests}

IsTestDir(f, p) == p # Root /\ IsDirectory(f, p) /\ Basename(p) \in TestDirNames

InTestDir(f, p) == \E i \in 1..Len(p) : IsTestDir(f, SubSeq(p, 1, i))

TestsRemoved(f, g) ==
    /\ \A p \in DOMAIN g : ~IsTestDir(g, p)
    /\ \A p \in DOMAIN f :
          IF InTestDir(f, p)
          THEN ~Exists(g, p)
          ELSE Exists(g, p) /\ g[p] = f[p]
    /\ DOMAIN g \subseteq DOMAIN f

\* C8: the test-removal pass runs iff tests are off; after it no directory
\* named cypress or __tests__ exists at any depth, everything that was
\* inside one is gone, and every other file and directory is present and
\* unchanged.
C8_TestRemoval ==
    [][pc = "testCleanup" =>
          IF ~Truthy(cfg.needsTests)
          THEN TestsRemoved(fs, fs')
          ELSE fs' = fs]_vars

W8_TestDirsRemoved ==
    /\ pc = "readme"
    /\ ~Truthy(cfg.needsTests)
    /\ \E i \in 1..Len(rendered) : rendered[i] = "config/typescript"
    /\ ~Exists(fs, <<Cypress>>)
    /\ ~Exists(fs, <<Src, N("components", ""), Tests>>)
    /\ IsDirectory(fs, <<Src, N("components", "")>>)
    /\ IsFile(fs, <<Src, N("App", "vue")>>)

PromptSequence == <<"projectName", "shouldOverwrite", "overwriteChecker",
                    "packageName", "needsTypeScript", "needsJsx", "needsRouter",
                    "needsPinia", "needsTests", "needsEslint", "needsPrettier">>

Prompting == {PromptSequence[i] : i \in 1..Len(PromptSequence)}

\* C9: a declined overwrite confirmation or an interrupted prompt ends the
\* run with the cancellation message and exit status 1, and nothing under
\* the target has been touched: the tree differs from the initial one only
\* once the whole prompt sequence has been completed without cancellation.
C9_CancelLeavesTargetUntouched ==
    /\ (Get(result, "shouldOverwrite") = "false" /\ pc # "overwriteChecker") =>
           exitCode = 1
    /\ exitCode = 1 =>
           /\ pc = "exited"
           /\ stdout[Len(stdout)] = CancelMessage
           /\ fs = fs0
    /\ pc \in Prompting \cup {"parse", "destructure"} => fs = fs0
    /\ pc \in Configured => exitCode = -1

W9_DeclinedOverwrite ==
    /\ pc = "exited"
    /\ exitCode = 1
    /\ Get(result, "shouldOverwrite") = "false"
    /\ fs0 = UserTree
    /\ fs = UserTree

\* C10: in the effective configuration formatting on implies linting on.
C10_PrettierImpliesEslint ==
    pc \in Configured => (Truthy(cfg.needsPrettier) => Truthy(cfg.needsEslint))


====
